---- MODULE Spec2Model ----
(***************************************************************************)
(* State-machine model of duplicacy-wrapper.py: the argument scan of       *)
(* main(), the supervised run (spawn, read loop, summary, ping, exit),     *)
(* the asynchronous signal_handler and the top-level exception handler.    *)
(*                                                                         *)
(* Text is modelled at the level of chunks.  A command-line token is a     *)
(* sequence of chunks whose first chunk is "-" exactly when the token      *)
(* starts with the character '-'; the empty token is the empty sequence.   *)
(* An output line is a sequence of words; the timestamp prefix is the      *)
(* single word "TS".  Regular expressions are modelled by the operators    *)
(* that search these sequences.                                            *)
(***************************************************************************)
EXTENDS Integers, Sequences, FiniteSets, TLC

VARIABLES
    argv,               \* sys.argv[1:]
    i,                  \* scan index of main()
    pc,                 \* position of the wrapper process
    OPERATION,          \* global OPERATION
    at_start, verbose, healthchecks,
    handlers,           \* TRUE once signal.signal() installed signal_handler
    CLI,                \* global CLI: "None" or "Popen"
    child,              \* the duplicacy process: none | running | zombie | reaped
    childCode,          \* CLI.returncode: None until poll() collects the child
    pipe,               \* lines written by the child and not yet read
    written,            \* number of lines the child has written
    childSignals,       \* signals delivered to the child by os.kill
    straySignals,       \* os.kill calls made on the pid after it was reaped
    nsignals,           \* signals received by the wrapper
    msg, stats, storage, repository,
    errors, warnings, chunks_removed, snapshots_removed,
    echoed,             \* the lines repeated on stdout, in order
    exit_code, severity,
    logs,               \* log_tool calls, in order
    pings,              \* curl invocations of ping_healthchecks, in order
    exception,          \* the exception travelling to the top-level handler
    execArgs,           \* argument vector of os.execvp, once it replaced the process
    status              \* exit status of the wrapper process

scanVars  == <<i, OPERATION, at_start, verbose, healthchecks>>
childVars == <<CLI, child, childCode, pipe, written, childSignals>>
aggVars   == <<msg, stats, storage, repository, errors, warnings,
               chunks_removed, snapshots_removed, echoed>>
endVars   == <<exit_code, severity>>
sigVars   == <<handlers, straySignals, nsignals>>

vars == <<argv, pc, scanVars, childVars, aggVars, endVars, sigVars,
          logs, pings, exception, execArgs, status>>

----------------------------------------------------------------------------
(* Bounds of the model *)

MaxArgs == 3
MaxLines == 2
MaxSignals == 1

(* Python's None, for the variables that hold text *)
None == "None"

(* Python's None, for the variables that hold a number (return code, exit code,
   severity, exit status): a number that is none of their values *)
NoNumber == -1000

(* An argument vector of os.execvp that is no argument vector: nothing was executed *)
NotExecuted == <<>>

----------------------------------------------------------------------------
(* Command-line tokens *)

Opt(name) == <<"-", name>>
Word(w) == <<w>>
EmptyToken == <<>>

ValueOptions == {Opt("profile"), Opt("suppress")}
CommentOption == Opt("comment")

Operations == {Word("backup"), Word("copy"), Word("prune"), Word("check"), Word("restore")}

PassThrough ==
    {Word("init"), Word("list"), Word("cat"), Word("diff"), Word("history"),
     Word("password"), Word("add"), Word("set"), Word("info"), Word("benchmark"),
     Word("help"), Word("h")}

(* "log_at_start" in sys.argv[i + 1] *)
HasLogAtStart(tok) == \E k \in 1..Len(tok) : tok[k] = "log_at_start"

(* "log_verbose" in sys.argv[i + 1] *)
HasLogVerbose(tok) == \E k \in 1..Len(tok) : tok[k] = "log_verbose"

(* re.search(r"\bhealthchecks\s*=\s*([^,'\"\s]+)", tok): the positions of a match *)
HealthchecksAt(tok) ==
    {k \in 1..Len(tok) :
        /\ k + 2 <= Len(tok)
        /\ tok[k] = "healthchecks"
        /\ tok[k + 1] = "="
        /\ tok[k + 2] \notin {",", "'", "\"", " "}}

Min(S) == CHOOSE x \in S : \A y \in S : x <= y
Max(S) == CHOOSE x \in S : \A y \in S : y <= x

(* m.group(1) of the leftmost match, None without a match *)
HealthchecksURL(tok) ==
    IF HealthchecksAt(tok) = {} THEN None ELSE tok[Min(HealthchecksAt(tok)) + 2]

(* CMD = " ".join(sys.argv[1:]) *)
CMD == argv

----------------------------------------------------------------------------
(* log_tool, exec_unwrapped and the way an exception leaves main() *)

NoBody == <<>>
Frag(tag, text, n) == [tag |-> tag, text |-> text, n |-> n]

(* One call of log_tool(message, severity); ok is the outcome of subprocess.call *)
LogEntry(kind, sev, body, ok) ==
    [kind |-> kind, sev |-> sev, op |-> OPERATION, cmd |-> CMD, body |-> body, ok |-> ok]

(* An exception raised in main() reaches the handler of the __main__ block *)
Raise(exc) ==
    /\ pc' = "fatal"
    /\ exception' = exc

(* exec_unwrapped passing only the arguments from the command on *)
exec_unwrapped_FromCommand ==
    /\ pc' = "exec"
    /\ execArgs' = <<Word("duplicacy")>> \o SubSeq(argv, i, Len(argv))
    /\ UNCHANGED exception

(* os.execvp("duplicacy", ["duplicacy"] + sys.argv[1:]) replaces the process *)
exec_unwrapped ==
    /\ pc' = "exec"
    /\ execArgs' = <<Word("duplicacy")>> \o argv
    /\ UNCHANGED exception

(* log_tool(...) followed by exec_unwrapped(): log_tool raises RuntimeError
   when subprocess.call returns non-zero *)
LogThenExec(kind) ==
    \E ok \in BOOLEAN :
        /\ logs' = Append(logs, LogEntry(kind, 1, NoBody, ok))
        /\ IF ok THEN exec_unwrapped
                 ELSE Raise("RuntimeError") /\ UNCHANGED execArgs

----------------------------------------------------------------------------
(* The argument scan of main(): one action per branch of the while loop *)

Scanning == pc = "scan" /\ i <= Len(argv)

restOfRun == <<childVars, aggVars, endVars, sigVars, pings, status, argv>>

(* ScanValueOption with the value of the option left to the next iteration *)
ScanValueOption_SkipOne ==
    /\ Scanning
    /\ argv[i] \in ValueOptions
    /\ i' = i + 1
    /\ UNCHANGED <<pc, OPERATION, at_start, verbose, healthchecks, logs, exception,
                   execArgs, restOfRun>>

(* sys.argv[i] in ("-profile", "-suppress"): i += 2 *)
ScanValueOption ==
    /\ Scanning
    /\ argv[i] \in ValueOptions
    /\ i' = i + 2
    /\ UNCHANGED <<pc, OPERATION, at_start, verbose, healthchecks, logs, exception,
                   execArgs, restOfRun>>

(* sys.argv[i] == "-comment": reads sys.argv[i + 1], IndexError when it is missing *)
ScanComment ==
    /\ Scanning
    /\ argv[i] \notin ValueOptions
    /\ argv[i] = CommentOption
    /\ IF i + 1 > Len(argv)
       THEN /\ Raise("IndexError")
            /\ UNCHANGED <<i, at_start, verbose, healthchecks>>
       ELSE /\ at_start' = (at_start \/ HasLogAtStart(argv[i + 1]))
            /\ verbose' = (verbose \/ HasLogVerbose(argv[i + 1]))
            /\ healthchecks' = IF HealthchecksAt(argv[i + 1]) # {}
                                THEN HealthchecksURL(argv[i + 1])
                                ELSE healthchecks
            /\ i' = i + 2
            /\ UNCHANGED <<pc, exception>>
    /\ UNCHANGED <<OPERATION, logs, execArgs, restOfRun>>

NotValueOrComment == argv[i] \notin ValueOptions /\ argv[i] # CommentOption

(* sys.argv[i][0] == "-": IndexError on the empty token, otherwise i += 1 *)
ScanOption ==
    /\ Scanning
    /\ NotValueOrComment
    /\ IF Len(argv[i]) = 0
       THEN Raise("IndexError") /\ UNCHANGED i
       ELSE /\ argv[i][1] = "-"
            /\ i' = i + 1
            /\ UNCHANGED <<pc, exception>>
    /\ UNCHANGED <<OPERATION, at_start, verbose, healthchecks, logs, execArgs, restOfRun>>

IsCommand == NotValueOrComment /\ Len(argv[i]) > 0 /\ argv[i][1] # "-"

(* ScanOperation without the break: the scan goes on after the operation *)
ScanOperation_NoBreak ==
    /\ Scanning
    /\ IsCommand
    /\ argv[i] \in Operations
    /\ OPERATION' = argv[i][1]
    /\ i' = i + 1
    /\ UNCHANGED <<pc, at_start, verbose, healthchecks, logs, exception, execArgs, restOfRun>>

(* sys.argv[i] in ("backup", ...): OPERATION = sys.argv[i]; break *)
ScanOperation ==
    /\ Scanning
    /\ IsCommand
    /\ argv[i] \in Operations
    /\ OPERATION' = argv[i][1]
    /\ pc' = "start"
    /\ UNCHANGED <<i, at_start, verbose, healthchecks, logs, exception, execArgs, restOfRun>>

(* sys.argv[i] in ("init", ...): exec_unwrapped() *)
ScanPassThrough ==
    /\ Scanning
    /\ IsCommand
    /\ argv[i] \notin Operations
    /\ argv[i] \in PassThrough
    /\ exec_unwrapped
    /\ UNCHANGED <<scanVars, logs, restOfRun>>

(* else: log_tool("[duplicacy] Unrecogized command: ...", 1); exec_unwrapped() *)
ScanUnrecognized ==
    /\ Scanning
    /\ IsCommand
    /\ argv[i] \notin Operations
    /\ argv[i] \notin PassThrough
    /\ LogThenExec("unrecognized")
    /\ UNCHANGED <<scanVars, restOfRun>>

(* while ... else: log_tool("[duplicacy] Parse failed: ...", 1); exec_unwrapped() *)
ScanEnd ==
    /\ pc = "scan"
    /\ i > Len(argv)
    /\ LogThenExec("parsefail")
    /\ UNCHANGED <<scanVars, restOfRun>>

ScanStep ==
    \/ ScanValueOption
    \/ ScanComment
    \/ ScanOption
    \/ ScanOperation
    \/ ScanPassThrough
    \/ ScanUnrecognized
    \/ ScanEnd

----------------------------------------------------------------------------
(* Output lines of the child and the regular expressions of the read loop *)

Lines ==
    { <<"TS", "INFO", "STORAGE_SET", "Storage", "set", "to", "s1">>,
      <<"TS", "INFO", "REPOSITORY_SET", "Repository", "set", "to", "r1">>,
      <<"TS", "WARN", "DOWNLOAD_RETRY", "retrying">>,
      <<"TS", "ERROR", "STORAGE_CREATE", "failed">>,
      <<"TS", "INFO", "CHUNK_DELETE", "chunk", "removed">>,
      <<"TS", "INFO", "SNAPSHOT_DELETE", "snapshot", "removed">>,
      <<"TS", "INFO", "SNAPSHOT_DELETE", "Deleting", "snapshot">>,
      <<"TS", "INFO", "BACKUP_STATS", "Files:", "10">>,
      <<"TS", "INFO", "SNAPSHOT_CHECK", "All chunks referenced by snapshot", "exist">>,
      <<"TS", "INFO", "SNAPSHOT_COPY", "Copied 3 new chunks">>,
      <<"TS", "INFO", "SNAPSHOT_COPY", "Copy", "complete">>,
      <<"WARN", "ERROR", "STORAGE_SET", "set", "to", "s2", "INFO", "BACKUP_STATS", "Files:", "10">> }

KEYWORDS ==
    {"BACKUP_END", "BACKUP_STATS", "SNAPSHOT_COPY", "SNAPSHOT_NONE", "SNAPSHOT_CHECK",
     "RESTORE_END", "RESTORE_STATS"}

(* A test that takes every line that is not empty *)
HasTimestamp_NonEmpty(line) == Len(line) > 0

(* re.match(r"\d{4}-\d{2}-\d{2}\s+\d{2}:\d{2}:\d{2}\.\d{3}\b", line) *)
HasTimestamp(line) == Len(line) > 0 /\ line[1] = "TS"

\* re.search(r"\b<kw>\s+.*set to\s+(.*)$", line): the positions of "set to"
\* after the keyword; the greedy .* takes the last one
SetToAt(kw, line) ==
    {j \in 1..Len(line) :
        /\ j + 1 <= Len(line)
        /\ line[j] = "set" /\ line[j + 1] = "to"
        /\ \E k \in 1..(j - 1) : line[k] = kw}

SetToValue(kw, line) == SubSeq(line, Max(SetToAt(kw, line)) + 2, Len(line))

(* re.search(r"\bWARN\b", line) *)
IsWarning(line) == \E k \in 1..Len(line) : line[k] = "WARN"

(* re.search(r"\b(ERROR|FATAL|ASSERT)\b", line) *)
IsError(line) == \E k \in 1..Len(line) : line[k] \in {"ERROR", "FATAL", "ASSERT"}

(* re.search(r"\bINFO\s+CHUNK_DELETE\b", line) *)
IsChunkDelete(line) ==
    \E k \in 1..(Len(line) - 1) : line[k] = "INFO" /\ line[k + 1] = "CHUNK_DELETE"

\* The pattern without its tail: any INFO SNAPSHOT_DELETE line
IsSnapshotDelete_AnyPayload(line) ==
    \E k \in 1..(Len(line) - 1) : line[k] = "INFO" /\ line[k + 1] = "SNAPSHOT_DELETE"

\* re.search(r"\bINFO\s+SNAPSHOT_DELETE\b.*\bremoved\b", line)
IsSnapshotDelete(line) ==
    \E k \in 1..(Len(line) - 1) :
        /\ line[k] = "INFO" /\ line[k + 1] = "SNAPSHOT_DELETE"
        /\ \E j \in (k + 2)..Len(line) : line[j] = "removed"

\* re.search(r"\bINFO\s+(\w+)\s+(\w.+\w)$", line): the positions of INFO that
\* are followed by a keyword and a payload; the leftmost one is the match
InfoAt(line) == {k \in 1..Len(line) : line[k] = "INFO" /\ k + 2 <= Len(line)}

InfoKeyword(line) == line[Min(InfoAt(line)) + 1]
InfoPayload(line) == SubSeq(line, Min(InfoAt(line)) + 2, Len(line))

Contains(payload, words) == \E k \in 1..Len(payload) : payload[k] \in words

(* RecordsStat without the two suppressions: every allow-listed keyword records *)
RecordsStat_NoSuppression(line) ==
    /\ InfoAt(line) # {}
    /\ InfoKeyword(line) \in KEYWORDS

(* lines 312-322: the payload that is appended to stats, if any *)
RecordsStat(line) ==
    /\ InfoAt(line) # {}
    /\ InfoKeyword(line) \in KEYWORDS
    /\ ~ ( /\ InfoKeyword(line) = "SNAPSHOT_CHECK"
           /\ Contains(InfoPayload(line), {"All chunks referenced by snapshot"}) )
    /\ ~ ( /\ InfoKeyword(line) = "SNAPSHOT_COPY"
           /\ ~ Contains(InfoPayload(line), {"Chunks to copy:", "Copied 3 new chunks"}) )

----------------------------------------------------------------------------
(* Start of the supervised run: lines 248-261 *)

scanned == <<i, OPERATION, at_start, verbose, healthchecks, argv>>

(* if at_start: log_tool("[duplicacy starting ...", 0) *)
LogAtStart ==
    /\ pc = "start"
    /\ IF at_start
       THEN \E ok \in BOOLEAN :
                /\ logs' = Append(logs, LogEntry("start", 0, NoBody, ok))
                /\ IF ok THEN pc' = "install" /\ UNCHANGED exception
                         ELSE Raise("RuntimeError")
       ELSE pc' = "install" /\ UNCHANGED <<logs, exception>>
    /\ UNCHANGED <<scanned, childVars, aggVars, endVars, sigVars, pings, execArgs, status>>

(* signal.signal(SIGINT, signal_handler); signal.signal(SIGTERM, signal_handler) *)
InstallHandlers ==
    /\ pc = "install"
    /\ handlers' = TRUE
    /\ pc' = "spawn"
    /\ UNCHANGED <<scanned, childVars, aggVars, endVars, straySignals, nsignals,
                   logs, pings, exception, execArgs, status>>

(* subprocess.Popen(...) creates the child, or raises OSError *)
SpawnFork ==
    /\ pc = "spawn"
    /\ \/ /\ child' = "running"
          /\ pc' = "assign"
          /\ UNCHANGED exception
       \/ /\ Raise("OSError")
          /\ UNCHANGED child
    /\ UNCHANGED <<scanned, CLI, childCode, pipe, written, childSignals, aggVars, endVars,
                   sigVars, logs, pings, execArgs, status>>

(* CLI = <the Popen object> *)
SpawnAssign ==
    /\ pc = "assign"
    /\ CLI' = "Popen"
    /\ pc' = "loop"
    /\ UNCHANGED <<scanned, child, childCode, pipe, written, childSignals, aggVars, endVars,
                   sigVars, logs, pings, exception, execArgs, status>>

----------------------------------------------------------------------------
(* The child process, followed while the wrapper process lives *)

ExitCodes == {0, 1, 2, 3, 100, 101, 7, -15}

WrapperLives == pc \notin {"done", "exec"}

wrapperVars == <<scanned, pc, aggVars, endVars, sigVars, logs, pings, exception,
                 execArgs, status>>

ChildWrite ==
    /\ WrapperLives
    /\ child = "running"
    /\ written < MaxLines
    /\ \E line \in Lines : pipe' = Append(pipe, line)
    /\ written' = written + 1
    /\ UNCHANGED <<CLI, child, childCode, childSignals, wrapperVars>>

(* The child terminates and closes its end of the pipe *)
ChildExit ==
    /\ WrapperLives
    /\ child = "running"
    /\ child' = "zombie"
    /\ UNCHANGED <<CLI, childCode, pipe, written, childSignals, wrapperVars>>

----------------------------------------------------------------------------
(* The read loop: lines 265-322 *)

StorageFrag(line) ==
    IF SetToAt("STORAGE_SET", line) # {}
    THEN <<Frag("Storage", SetToValue("STORAGE_SET", line), 0)>> ELSE <<>>

RepositoryFrag(line) ==
    IF SetToAt("REPOSITORY_SET", line) # {}
    THEN <<Frag("Repository", SetToValue("REPOSITORY_SET", line), 0)>> ELSE <<>>

StatFrag(line) ==
    IF RecordsStat(line) THEN <<Frag("stat", InfoPayload(line), 0)>> ELSE <<>>

(* A counter that advances by two on a line it counts *)
Count_Twice(n, hit) == IF hit THEN n + 2 ELSE n

(* warnings += 1, errors += 1, chunks_removed += 1, snapshots_removed += 1 on a
   line that matches *)
Count(n, hit) == IF hit THEN n + 1 ELSE n

VerboseLog(sev, line, ok) == LogEntry("verbose", sev, <<Frag("line", line, 0)>>, ok)

(* One iteration on a line that readline() returned *)
ReadLine ==
    /\ pc = "loop"
    /\ pipe # <<>>
    /\ pipe' = Tail(pipe)
    /\ echoed' = Append(echoed, Head(pipe))
    /\ LET line == Head(pipe) IN
       IF ~ HasTimestamp(line)
       THEN UNCHANGED <<pc, exception, logs, msg, stats, storage, repository, errors,
                        warnings, chunks_removed, snapshots_removed>>
       ELSE \E okW, okE \in BOOLEAN :
            LET logW == verbose /\ IsWarning(line)
                failW == logW /\ ~ okW
                logE == verbose /\ IsError(line) /\ ~ failW
                failE == logE /\ ~ okE
            IN  /\ (~ logW => okW)
                /\ (~ logE => okE)
                /\ storage' = IF SetToAt("STORAGE_SET", line) # {}
                              THEN SetToValue("STORAGE_SET", line) ELSE storage
                /\ repository' = IF SetToAt("REPOSITORY_SET", line) # {}
                                 THEN SetToValue("REPOSITORY_SET", line) ELSE repository
                /\ msg' = msg \o StorageFrag(line) \o RepositoryFrag(line)
                /\ warnings' = Count(warnings, IsWarning(line))
                /\ errors' = Count(errors, IsError(line) /\ ~ failW)
                /\ logs' = logs \o (IF logW THEN <<VerboseLog(1, line, okW)>> ELSE <<>>)
                                \o (IF logE THEN <<VerboseLog(2, line, okE)>> ELSE <<>>)
                /\ IF failW \/ failE
                   THEN /\ Raise("RuntimeError")
                        /\ UNCHANGED <<chunks_removed, snapshots_removed, stats>>
                   ELSE /\ chunks_removed' =
                               Count(chunks_removed,
                                     OPERATION = "prune" /\ IsChunkDelete(line))
                        /\ snapshots_removed' =
                               Count(snapshots_removed,
                                     /\ OPERATION = "prune"
                                     /\ ~ IsChunkDelete(line)
                                     /\ IsSnapshotDelete(line))
                        /\ stats' = stats \o StatFrag(line)
                        /\ UNCHANGED <<pc, exception>>
    /\ UNCHANGED <<scanned, CLI, child, childCode, written, childSignals, endVars, sigVars,
                   pings, execArgs, status>>

(* ReadEOF that tests the recorded return code and never calls poll(): the code
   of the terminated child is never collected *)
ReadEOF_NoCollect ==
    /\ pc = "loop"
    /\ pipe = <<>>
    /\ childCode # NoNumber
    /\ pc' = "build"
    /\ UNCHANGED <<scanned, childVars, aggVars, endVars, sigVars, logs, pings, exception,
                   execArgs, status>>

(* ReadEOF that breaks on an empty read without asking whether the child has
   terminated *)
ReadEOF_NoPoll ==
    /\ pc = "loop"
    /\ pipe = <<>>
    /\ child \in {"running", "zombie"}
    /\ pc' = "build"
    /\ UNCHANGED <<scanned, childVars, aggVars, endVars, sigVars, logs, pings, exception,
                   execArgs, status>>

(* readline() returns nothing and CLI.poll() is not None: break.  poll() collects
   the return code the terminated child left: its exit code, or the negated
   number of the signal that ended it *)
ReadEOF ==
    /\ pc = "loop"
    /\ pipe = <<>>
    /\ child = "zombie"
    /\ child' = "reaped"
    /\ \E code \in ExitCodes : childCode' = code
    /\ pc' = "build"
    /\ UNCHANGED <<scanned, CLI, pipe, written, childSignals, aggVars, endVars,
                   sigVars, logs, pings, exception, execArgs, status>>

----------------------------------------------------------------------------
(* Severity and summary message: lines 329-365 *)

(* exit_code == n; None equals no number *)
PyEq(code, n) == code # NoNumber /\ code = n

(* ExitSeverity that takes every code that is not positive for success *)
ExitSeverity_NegativeOK(code) ==
    IF code # NoNumber /\ code <= 0 THEN 0 ELSE IF PyEq(code, 1) THEN 1 ELSE 2

(* the elif chain over exit_code *)
ExitSeverity(code) ==
    CASE PyEq(code, 0) -> 0
      [] PyEq(code, 1) -> 1
      [] PyEq(code, 2) -> 2
      [] PyEq(code, 3) -> 2
      [] PyEq(code, 100) -> 2
      [] PyEq(code, 101) -> 2
      [] OTHER -> 2

(* ResolveSeverity in which warnings set the severity instead of raising it *)
ResolveSeverity_WarningsSet(errs, code, warns) ==
    LET s == IF errs > 0 THEN 2 ELSE ExitSeverity(code)
    IN  IF warns > 0 THEN 1 ELSE s

ResolveSeverity(errs, code, warns) ==
    LET s == IF errs > 0 THEN 2 ELSE ExitSeverity(code)
    IN  IF warns > 0 /\ s = 0 THEN 1 ELSE s

CountFrag(tag, n) == IF n > 0 THEN <<Frag(tag, <<>>, n)>> ELSE <<>>

(* FinalStats with the removal counts put before the statistics *)
FinalStats_CountsFirst(st, chunks, snapshots) ==
    CountFrag("chunks", chunks) \o CountFrag("snapshots", snapshots) \o st

(* stats after "; N chunk(s) removed" and "; N snapshot(s) removed" were added *)
FinalStats(st, chunks, snapshots) ==
    st \o CountFrag("chunks", chunks) \o CountFrag("snapshots", snapshots)

(* msg after the count fragments, the stats and the exit status were added *)
FinalMsg(m, errs, warns, st, chunks, snapshots, code) ==
    m \o CountFrag("errors", errs) \o CountFrag("warnings", warns)
      \o FinalStats(st, chunks, snapshots)
      \o (IF code # NoNumber /\ code > 0 THEN <<Frag("exit", <<>>, code)>> ELSE <<>>)

BuildSummary ==
    /\ pc = "build"
    /\ exit_code' = (IF CLI # None THEN childCode ELSE 1)
    /\ severity' = ResolveSeverity(errors, exit_code', warnings)
    /\ stats' = FinalStats(stats, chunks_removed, snapshots_removed)
    /\ msg' = FinalMsg(msg, errors, warnings, stats, chunks_removed, snapshots_removed,
                       exit_code')
    /\ pc' = "summary"
    /\ UNCHANGED <<scanned, childVars, storage, repository, errors, warnings,
                   chunks_removed, snapshots_removed, echoed, sigVars, logs, pings,
                   exception, execArgs, status>>

(* log_tool("[duplicacy {}] {}{}".format(OPERATION, CMD, msg), severity) *)
LogSummary ==
    /\ pc = "summary"
    /\ \E ok \in BOOLEAN :
        /\ logs' = Append(logs, LogEntry("summary", severity, msg, ok))
        /\ IF ok
           THEN /\ pc' = (IF healthchecks # None THEN "ping" ELSE "exit")
                /\ UNCHANGED exception
           ELSE Raise("RuntimeError")
    /\ UNCHANGED <<scanned, childVars, aggVars, endVars, sigVars, pings, execArgs, status>>

----------------------------------------------------------------------------
(* ping_healthchecks: lines 130-164, called at lines 369-374 *)

CurlResults == {"ok", "failed", "notstarted"}

(* Ping whose URL suffix is taken from the exit code alone *)
Ping_ExitSeverity(result) ==
    [url |-> healthchecks, suffix |-> ExitSeverity(exit_code), data |-> msg,
     result |-> result]

Ping(result) == [url |-> healthchecks, suffix |-> severity, data |-> msg, result |-> result]

(* curl returns 0; curl returns non-zero and the failure is logged with severity 1
   (log_tool may raise RuntimeError); or Popen raises OSError, which is raised again *)
PingHealthchecks ==
    /\ pc = "ping"
    /\ \E result \in CurlResults :
        /\ pings' = Append(pings, Ping(result))
        /\ CASE result = "ok" ->
                    pc' = "exit" /\ UNCHANGED <<logs, exception>>
             [] result = "failed" ->
                    \E ok \in BOOLEAN :
                        /\ logs' = Append(logs, LogEntry("pingfailed", 1, NoBody, ok))
                        /\ IF ok THEN pc' = "exit" /\ UNCHANGED exception
                                 ELSE Raise("RuntimeError")
             [] result = "notstarted" ->
                    Raise("OSError") /\ UNCHANGED logs
    /\ UNCHANGED <<scanned, childVars, aggVars, endVars, sigVars, execArgs, status>>

----------------------------------------------------------------------------
(* Process exit *)

(* The exit status the operating system records for sys.exit(code): the low
   eight bits of a number, 0 for None *)
ExitStatus(code) == IF code # NoNumber THEN code % 256 ELSE 0

(* sys.exit(exit_code), line 376 *)
Exit ==
    /\ pc = "exit"
    /\ status' = ExitStatus(exit_code)
    /\ pc' = "done"
    /\ UNCHANGED <<scanned, childVars, aggVars, endVars, sigVars, logs, pings, exception,
                   execArgs>>

(* TopLevelHandler that passes on the exit code of the child, when there is one *)
TopLevelHandler_ChildStatus ==
    /\ pc = "fatal"
    /\ \E ok \in BOOLEAN :
        logs' = Append(logs, LogEntry("fatal", 2, <<Frag("exception", <<exception>>, 0)>>, ok))
    /\ status' = (IF exit_code # NoNumber THEN ExitStatus(exit_code) ELSE 1)
    /\ pc' = "done"
    /\ UNCHANGED <<scanned, childVars, aggVars, endVars, sigVars, pings, exception, execArgs>>

(* except Exception as e: log_tool(..., 2); sys.exit(1).  When log_tool raises
   inside the handler the interpreter ends with a traceback and status 1 *)
TopLevelHandler ==
    /\ pc = "fatal"
    /\ \E ok \in BOOLEAN :
        logs' = Append(logs, LogEntry("fatal", 2, <<Frag("exception", <<exception>>, 0)>>, ok))
    /\ status' = 1
    /\ pc' = "done"
    /\ UNCHANGED <<scanned, childVars, aggVars, endVars, sigVars, pings, exception, execArgs>>

----------------------------------------------------------------------------
(* SIGINT or SIGTERM arrives at the wrapper process *)

SIGINT == 2
SIGTERM == 15
Signals == {SIGINT, SIGTERM}

(* Exit status when the signal finds Python's default disposition: SIGTERM ends
   the process; SIGINT raises KeyboardInterrupt, which no handler of the script
   catches (status 1, or death by SIGINT, depending on the interpreter) *)
DefaultStatus(sig) == IF sig = SIGINT THEN {1, 128 + SIGINT} ELSE {128 + SIGTERM}

sigFrame == <<scanned, CLI, child, childCode, pipe, written, aggVars, endVars, handlers,
              logs, pings, execArgs>>

(* signal_handler is not installed yet *)
SignalDefault(sig) ==
    /\ ~ handlers
    /\ \E st \in DefaultStatus(sig) : status' = st
    /\ pc' = "done"
    /\ UNCHANGED <<childSignals, straySignals, exception>>

(* signal_handler with CLI None: sys.exit(1); SystemExit is no Exception *)
SignalNoChild ==
    /\ handlers
    /\ CLI = None
    /\ status' = 1
    /\ pc' = "done"
    /\ UNCHANGED <<childSignals, straySignals, exception>>

(* signal_handler: os.kill(CLI.pid, signum) while the pid names the child *)
SignalForward ==
    /\ handlers
    /\ CLI # None
    /\ child \in {"running", "zombie"}
    /\ childSignals' = childSignals + 1
    /\ UNCHANGED <<pc, status, straySignals, exception>>

(* signal_handler: os.kill(CLI.pid, signum) after poll() collected the child.
   The pid is free: os.kill raises OSError (ESRCH) in the main flow, or the
   signal goes to whatever process took the pid *)
SignalStale ==
    /\ handlers
    /\ CLI # None
    /\ child = "reaped"
    /\ \/ /\ straySignals' = straySignals + 1
          /\ UNCHANGED <<pc, status, exception>>
       \/ /\ UNCHANGED straySignals
          /\ IF pc = "fatal"
             THEN pc' = "done" /\ status' = 1 /\ UNCHANGED exception
             ELSE Raise("OSError") /\ UNCHANGED status
    /\ UNCHANGED childSignals

Signal ==
    /\ WrapperLives
    /\ nsignals < MaxSignals
    /\ nsignals' = nsignals + 1
    /\ \E sig \in Signals :
        \/ SignalDefault(sig)
        \/ SignalNoChild
        \/ SignalForward
        \/ SignalStale
    /\ UNCHANGED sigFrame

----------------------------------------------------------------------------
(* Initial states and specifications *)

URL == "https://hc-ping.com/u1"

(* Argument lists of the supervised runs, over the three flags of -comment and
   the two kinds of operation (prune and not prune), and some lists that are
   not supervised *)
RunArgLists ==
    { <<Word("backup")>>,
      <<CommentOption, <<"healthchecks", "=", URL>>, Word("check")>>,
      <<CommentOption, <<"log_at_start", ",", "log_verbose", ",", "healthchecks", "=", URL>>,
        Word("prune")>>,
      <<Opt("profile"), Word("p1"), Word("list")>>,
      <<Word("bogus")>>,
      <<Opt("v")>>,
      <<CommentOption>> }

ScanTokens ==
    {Opt("profile"), CommentOption, Opt("unknownflag"), Word("backup"), Word("prune"),
     Word("list"), Word("bogus"), EmptyToken,
     <<"log_at_start", ",", "healthchecks", "=", URL>>}

(* Every argument list of at most MaxArgs tokens *)
ScanArgLists == UNION {[1..n -> ScanTokens] : n \in 0..MaxArgs}

InitRun ==
    /\ i = 1
    /\ pc = "scan"
    /\ OPERATION = "?"
    /\ at_start = FALSE
    /\ verbose = FALSE
    /\ healthchecks = None
    /\ handlers = FALSE
    /\ CLI = None
    /\ child = "none"
    /\ childCode = NoNumber
    /\ pipe = <<>>
    /\ written = 0
    /\ childSignals = 0
    /\ straySignals = 0
    /\ nsignals = 0
    /\ msg = <<>>
    /\ stats = <<>>
    /\ storage = None
    /\ repository = None
    /\ errors = 0
    /\ warnings = 0
    /\ chunks_removed = 0
    /\ snapshots_removed = 0
    /\ echoed = <<>>
    /\ exit_code = NoNumber
    /\ severity = NoNumber
    /\ logs = <<>>
    /\ pings = <<>>
    /\ exception = None
    /\ execArgs = NotExecuted
    /\ status = NoNumber

Init == argv \in RunArgLists /\ InitRun

InitScan == argv \in ScanArgLists /\ InitRun

Next ==
    \/ ScanStep
    \/ LogAtStart
    \/ InstallHandlers
    \/ SpawnFork
    \/ SpawnAssign
    \/ ChildWrite
    \/ ChildExit
    \/ ReadLine
    \/ ReadEOF
    \/ BuildSummary
    \/ LogSummary
    \/ PingHealthchecks
    \/ Exit
    \/ TopLevelHandler
    \/ Signal

Spec == Init /\ [][Next]_vars

(* The argument scan alone, over every argument list of at most MaxArgs tokens *)
SpecScan == InitScan /\ [][ScanStep]_vars

(* The steps of the script itself, as opposed to those of the child and to the
   arrival of a signal *)
WrapperStep ==
    \/ ScanStep
    \/ LogAtStart
    \/ InstallHandlers
    \/ SpawnFork
    \/ SpawnAssign
    \/ ReadLine
    \/ ReadEOF
    \/ BuildSummary
    \/ LogSummary
    \/ PingHealthchecks
    \/ Exit
    \/ TopLevelHandler

(* The lines that decide how the read loop goes on: those a verbose
   notification is sent for, one with and one without the timestamp, and one
   that only counts *)
LiveLines == {line \in Lines : IsWarning(line) \/ IsError(line) \/ IsChunkDelete(line)}

ChildWriteLive ==
    /\ WrapperLives
    /\ child = "running"
    /\ written < MaxLines
    /\ \E line \in LiveLines : pipe' = Append(pipe, line)
    /\ written' = written + 1
    /\ UNCHANGED <<CLI, child, childCode, childSignals, wrapperVars>>

NextLive ==
    \/ WrapperStep
    \/ ChildWriteLive
    \/ ChildExit
    \/ Signal

(* The wrapper is one thread of control that runs whenever it has a step to
   take: each call it makes returns (readline() when the pipe holds a line or
   is closed, subprocess.call and curl when their process ends).  Nothing is
   assumed of the child or of the signals *)
SpecLive == Init /\ [][NextLive]_vars /\ WF_vars(WrapperStep)

----------------------------------------------------------------------------
(* Vocabulary of the properties *)

SummaryAt == {k \in 1..Len(logs) : logs[k].kind = "summary"}
AllLogsOK == \A k \in 1..Len(logs) : logs[k].ok
ScanEnded == pc # "scan"

(* The first token that the option grammar of the wrapped tool does not consume:
   -profile, -suppress and -comment take the next token as their value, any
   other token starting with '-' stands alone.  0 when there is none *)
RECURSIVE FirstCommandAt(_, _)
FirstCommandAt(args, k) ==
    IF k > Len(args) THEN 0
    ELSE IF args[k] \in {Opt("profile"), Opt("suppress"), Opt("comment")}
         THEN FirstCommandAt(args, k + 2)
    ELSE IF Len(args[k]) > 0 /\ args[k][1] = "-"
         THEN FirstCommandAt(args, k + 1)
    ELSE k

FirstCommandIn(set) ==
    /\ FirstCommandAt(argv, 1) # 0
    /\ argv[FirstCommandAt(argv, 1)] \in set

FirstCommand == argv[FirstCommandAt(argv, 1)]

----------------------------------------------------------------------------
(* C1: in every supervised run whose summary notification succeeds, the exit
   status of the wrapper equals the exit code of the child, whatever the flags
   and whenever a signal arrives.  Stated for children that exited with a code
   of their own (0..255) and for runs in which no log_tool call failed. *)
C1_ExitStatusIsChildCode ==
    (pc = "done" /\ SummaryAt # {} /\ AllLogsOK /\ childCode \in 0..255)
        => status = childCode

(* C2: a failed health-check ping (curl returns non-zero, or curl cannot be
   started) never reaches the top-level handler and leaves the exit status the
   child's.  Stated for runs without signals in which no log_tool call failed. *)
C2_PingFailureNotFatal ==
    (pings # <<>> /\ pings[1].result # "ok" /\ AllLogsOK /\ nsignals = 0)
        => /\ pc # "fatal"
           /\ (pc = "done" /\ childCode \in 0..255) => status = childCode

(* C3: when the error count is positive, the summary is logged with severity
   ERROR (2), whatever the exit code and the warning count. *)
C3_ErrorsGiveError ==
    \A k \in SummaryAt : errors > 0 => logs[k].sev = 2

C3_Witness ==
    \E k \in SummaryAt : errors > 0 /\ warnings > 0 /\ exit_code = 0 /\ logs[k].sev = 2

(* The table of exit codes as the claim C4 states it *)
TableSeverity(code) == IF code = 0 THEN 0 ELSE IF code = 1 THEN 1 ELSE 2

(* C4: when the error count is 0, the severity of the summary is the larger of
   the exit-code table value and of WARNING if there were warnings, else INFO. *)
C4_SeverityIsMax ==
    \A k \in SummaryAt :
        errors = 0 =>
            logs[k].sev = Max({TableSeverity(exit_code), IF warnings > 0 THEN 1 ELSE 0})

C4_Witness ==
    \E k \in SummaryAt : errors = 0 /\ warnings > 0 /\ exit_code = 0 /\ logs[k].sev = 1

(* C5: the argument scan ends either with an operation and supervision, or with
   the process replaced by the wrapped tool; it never ends in the top-level
   handler.  Stated for scans in which no log_tool call failed. *)
C5_ScanEndsSupervisedOrUnwrapped ==
    (ScanEnded /\ AllLogsOK) =>
        \/ pc = "start" /\ <<OPERATION>> \in Operations /\ execArgs = NotExecuted
        \/ pc = "exec" /\ OPERATION = "?"

(* C6: when the first non-option token is backup, copy, prune, check or
   restore, the scan selects supervision with that token as the operation. *)
C6_OperationSelected ==
    (ScanEnded /\ FirstCommandIn(Operations)) =>
        /\ pc = "start"
        /\ <<OPERATION>> = FirstCommand
        /\ execArgs = NotExecuted

C6_Witness ==
    /\ pc = "start"
    /\ argv = <<CommentOption, Word("backup"), Word("prune")>>
    /\ OPERATION = "prune"

(* C7: when the first non-option token is in the pass-through set, log_tool is
   never called and the wrapped tool is executed with the original arguments. *)
C7_PassThroughSilent ==
    FirstCommandIn(PassThrough) =>
        /\ logs = <<>>
        /\ ScanEnded => (pc = "exec" /\ execArgs = <<Word("duplicacy")>> \o argv)

C7_Witness ==
    /\ pc = "exec"
    /\ FirstCommandIn(PassThrough)
    /\ at_start
    /\ Len(argv) = 3

PruneUnknownFlag == <<Word("prune"), Opt("unknownflag")>>

(* C8, as stated: the argument list ["prune", "-unknownflag"] ends in unwrapped
   execution after a WARNING notification "Parse failed". *)
C8_PruneUnknownFlagParseFailed ==
    (argv = PruneUnknownFlag /\ ScanEnded) =>
        /\ Len(logs) = 1 /\ logs[1].kind = "parsefail" /\ logs[1].sev = 1
        /\ logs[1].ok => pc = "exec"

(* C8, amended: the scan of ["prune", "-unknownflag"] stops at its first token,
   selects supervision with operation prune and logs nothing; the WARNING
   "Parse failed" before unwrapped execution is what ["-unknownflag"], a list
   without a command, ends in. *)
C8_PruneUnknownFlagSupervised ==
    /\ (argv = PruneUnknownFlag /\ ScanEnded) =>
            /\ pc = "start" /\ OPERATION = "prune"
            /\ logs = <<>> /\ execArgs = NotExecuted
    /\ (argv = <<Opt("unknownflag")>> /\ ScanEnded) =>
            /\ Len(logs) = 1 /\ logs[1].kind = "parsefail" /\ logs[1].sev = 1
            /\ logs[1].ok => (pc = "exec" /\ execArgs = <<Word("duplicacy")>> \o argv)

C8_Witness == argv = PruneUnknownFlag /\ pc = "start" /\ i = 1

----------------------------------------------------------------------------
(* The summary message against the lines that were read *)

RECURSIVE StorageRepositoryFrags(_)
StorageRepositoryFrags(lines) ==
    IF lines = <<>> THEN <<>>
    ELSE (IF HasTimestamp(Head(lines))
          THEN StorageFrag(Head(lines)) \o RepositoryFrag(Head(lines)) ELSE <<>>)
         \o StorageRepositoryFrags(Tail(lines))

RECURSIVE StatFrags(_)
StatFrags(lines) ==
    IF lines = <<>> THEN <<>>
    ELSE (IF HasTimestamp(Head(lines)) THEN StatFrag(Head(lines)) ELSE <<>>)
         \o StatFrags(Tail(lines))

IsPlace(f) == f.tag \in {"Storage", "Repository"}
IsStat(f) == f.tag = "stat"
IsExit(f) == f.tag = "exit"

(* Order of the fragments as the claim C9 states it *)
StatedRank(tag) ==
    CASE tag \in {"Storage", "Repository"} -> 1
      [] tag = "errors" -> 2
      [] tag = "warnings" -> 3
      [] tag = "chunks" -> 4
      [] tag = "snapshots" -> 5
      [] tag = "stat" -> 6
      [] tag = "exit" -> 7

(* Order of the fragments with the stat fragments before the removal counts *)
AmendedRank(tag) ==
    CASE tag \in {"Storage", "Repository"} -> 1
      [] tag = "errors" -> 2
      [] tag = "warnings" -> 3
      [] tag = "stat" -> 4
      [] tag = "chunks" -> 5
      [] tag = "snapshots" -> 6
      [] tag = "exit" -> 7

InStatedOrder(body) ==
    \A a, b \in 1..Len(body) : a < b => StatedRank(body[a].tag) <= StatedRank(body[b].tag)

InAmendedOrder(body) ==
    \A a, b \in 1..Len(body) : a < b => AmendedRank(body[a].tag) <= AmendedRank(body[b].tag)

(* What C9 says besides the place of the removal counts: operation and command
   line lead, storage/repository and stat fragments keep arrival order, the
   exit status is there exactly for a positive exit code *)
SummaryContents(e) ==
    /\ e.op = OPERATION /\ e.cmd = argv
    /\ SelectSeq(e.body, IsPlace) = StorageRepositoryFrags(echoed)
    /\ SelectSeq(e.body, IsStat) = StatFrags(echoed)
    /\ Len(SelectSeq(e.body, IsExit)) = (IF exit_code > 0 THEN 1 ELSE 0)
    /\ \A k \in 1..Len(e.body) : IsExit(e.body[k]) => e.body[k].n = exit_code

(* C9, as stated: the fragments of the summary are in the order operation,
   command line, storage/repository, errors, warnings, chunks removed,
   snapshots removed, stat fragments, exit status. *)
C9_StatedOrder ==
    \A k \in SummaryAt : SummaryContents(logs[k]) /\ InStatedOrder(logs[k].body)

(* C9, amended: the order is operation, command line, storage/repository in
   arrival order, errors, warnings, stat fragments in arrival order, chunks
   removed, snapshots removed, exit status (present exactly for a positive
   exit code): the removal counts follow the stat fragments. *)
C9_AmendedOrder ==
    \A k \in SummaryAt : SummaryContents(logs[k]) /\ InAmendedOrder(logs[k].body)

C9_Witness ==
    \E k \in SummaryAt :
        /\ \E a \in 1..Len(logs[k].body) : logs[k].body[a].tag = "stat"
        /\ \E a \in 1..Len(logs[k].body) : logs[k].body[a].tag = "chunks"
        /\ \E a \in 1..Len(logs[k].body) : logs[k].body[a].tag = "exit"

----------------------------------------------------------------------------
SummaryBuilt == exit_code # NoNumber

SummaryOnceAfterExit ==
    /\ Cardinality(SummaryAt) <= 1
    /\ SummaryAt # {} =>
            /\ child = "reaped"
            /\ childCode # NoNumber
            /\ exit_code = childCode
            /\ pipe = <<>>
            /\ pc \notin {"scan", "start", "install", "spawn", "assign", "loop", "build"}

(* C10: the summary notification is issued at most once, and only after the
   read loop ended with a definite exit code of the child; once the summary is
   built, no counter and no fragment of the aggregate state changes. *)
C10_SummaryOnceAndFinal ==
    [][ /\ SummaryOnceAfterExit'
        /\ SummaryBuilt =>
              UNCHANGED <<msg, stats, storage, repository, errors, warnings,
                          chunks_removed, snapshots_removed>> ]_vars

C10_Witness ==
    /\ pc = "done"
    /\ SummaryAt # {}
    /\ Len(echoed) = 2
    /\ errors > 0
    /\ msg # <<>>

----------------------------------------------------------------------------
(* A step in which the wrapper receives a signal *)
SignalArrives == nsignals' = nsignals + 1

ChildExists == child \in {"running", "zombie"}

(* C11: the handlers are installed before the child is spawned; a signal that
   arrives while a child process exists is forwarded to that child, and a
   signal that arrives when no child has been spawned ends the wrapper with a
   non-zero status: no signal ends the wrapper without being forwarded once the
   child has been created. *)
C11_SignalForwardedOrWrapperEnds ==
    [][ /\ child' # "none" => handlers'
        /\ SignalArrives /\ ChildExists =>
              /\ childSignals' = childSignals + 1
              /\ pc' = pc
        /\ SignalArrives /\ child = "none" =>
              /\ pc' = "done"
              /\ status' # NoNumber /\ status' # 0 ]_vars

----------------------------------------------------------------------------
FatalAt == {k \in 1..Len(logs) : logs[k].kind = "fatal"}

(* The notification of the top-level handler: ERROR severity, naming the
   operation, the command line and the failure *)
FatalEntry(e) ==
    /\ e.kind = "fatal"
    /\ e.sev = 2
    /\ e.op = OPERATION
    /\ e.cmd = argv
    /\ e.body = <<Frag("exception", <<exception>>, 0)>>

(* C12: a failure raised in the main logic (a notification call failing at
   start, in verbose mode or for the summary, the spawn of the child failing)
   goes to the top-level handler and nowhere else; the handler runs once,
   attempts one ERROR notification that names the operation, the command line
   and the failure, and the wrapper exits with status 1 whatever the exit code
   of the child.  Stated for the handler itself: a signal that ends the wrapper
   before the handler ran is the one other way out of a failed run. *)
C12_FailureCaughtOnceExitOne ==
    [][ /\ exception' # None => pc' \in {"fatal", "done"}
        /\ Cardinality(FatalAt') <= 1
        /\ pc = "fatal" /\ pc' = "done" /\ ~ SignalArrives =>
              /\ Len(logs') = Len(logs) + 1
              /\ SubSeq(logs', 1, Len(logs)) = logs
              /\ FatalEntry(logs'[Len(logs')])
              /\ status' = 1
        /\ pc' = "done" /\ exception' # None /\ handlers' => status' = 1 ]_vars

C12_Witness ==
    /\ pc = "done"
    /\ exception = "RuntimeError"
    /\ status = 1
    /\ childCode = 0
    /\ FatalAt # {}
    /\ \E k \in SummaryAt : ~ logs[k].ok

----------------------------------------------------------------------------
StaysOrAdvancesByOne(before, after) == after \in {before, before + 1}

(* C13: the counters errors, warnings, chunks_removed and snapshots_removed
   never decrease, and one line of output changes each of them by at most 1. *)
C13_CountersMonotonic ==
    [][ /\ StaysOrAdvancesByOne(errors, errors')
        /\ StaysOrAdvancesByOne(warnings, warnings')
        /\ StaysOrAdvancesByOne(chunks_removed, chunks_removed')
        /\ StaysOrAdvancesByOne(snapshots_removed, snapshots_removed')
        /\ <<errors, warnings, chunks_removed, snapshots_removed>>
               # <<errors', warnings', chunks_removed', snapshots_removed'>>
           => Len(echoed') = Len(echoed) + 1 ]_vars

C13_Witness ==
    /\ warnings = 2
    /\ Len(echoed) = 2
    /\ errors = 0

----------------------------------------------------------------------------
(* The line begins with the timestamp prefix *)
StartsWithTimestamp(line) == line # <<>> /\ Head(line) = "TS"

(* The read loop takes a line from the pipe *)
LineRead == echoed' # echoed

(* C14: a line that does not begin with the timestamp prefix leaves the whole
   aggregate state unchanged and triggers no notification, also when it
   contains WARN, ERROR, STORAGE_SET or an allow-listed INFO keyword and verbose
   mode is on; the line is still echoed. *)
C14_NoTimestampNoEffect ==
    [][ LineRead /\ ~ StartsWithTimestamp(Head(pipe)) =>
            /\ echoed' = Append(echoed, Head(pipe))
            /\ UNCHANGED <<msg, stats, storage, repository, errors, warnings,
                           chunks_removed, snapshots_removed>>
            /\ UNCHANGED <<logs, pings, exception, pc>> ]_vars

C14_Witness ==
    /\ verbose
    /\ Len(echoed) = 1
    /\ ~ StartsWithTimestamp(echoed[1])
    /\ IsWarning(echoed[1]) /\ IsError(echoed[1])
    /\ SetToAt("STORAGE_SET", echoed[1]) # {}
    /\ RecordsStat(echoed[1])
    /\ warnings = 0 /\ errors = 0
    /\ msg = <<>> /\ stats = <<>>
    /\ \A k \in 1..Len(logs) : logs[k].kind = "start"

----------------------------------------------------------------------------
ChildTerminated == pc = "loop" /\ child = "zombie"

(* The loop stops only on an empty read with the child terminated, and with
   every line the child wrote already read and classified *)
LoopStopsOnlyAtEnd ==
    [][ pc = "loop" /\ pc' = "build" =>
            /\ pipe = <<>>
            /\ child = "zombie"
            /\ Len(echoed) = written ]_vars

AllLinesClassified == SummaryBuilt => pipe = <<>> /\ Len(echoed) = written

(* C15, as stated: in a supervised run, if the child terminates and its output
   ends, the read loop eventually stops and the summary notification is
   eventually issued; the loop stops only on an empty read with the child
   terminated, so every line written is classified before the summary is
   built.  Read for the runs that no signal reaches. *)
C15_SummaryEventuallyIssued ==
    /\ LoopStopsOnlyAtEnd
    /\ []AllLinesClassified
    /\ ChildTerminated ~> (pc # "loop")
    /\ ChildTerminated ~> (SummaryAt # {} \/ nsignals > 0)

(* C15, amended: if the child terminates and its output ends, the read loop
   eventually stops, and the summary notification is eventually issued unless
   a failure is raised first (a verbose-mode notification that fails, the
   signal handler failing), which ends the run at the top-level handler; the
   loop stops only on an empty read with the child terminated, so every line
   written is classified before the summary is built. *)
C15_SummaryIssuedUnlessFailure ==
    /\ LoopStopsOnlyAtEnd
    /\ []AllLinesClassified
    /\ ChildTerminated ~> (pc # "loop")
    /\ ChildTerminated ~> (SummaryAt # {} \/ exception # None)

C15_Witness ==
    /\ SummaryAt # {}
    /\ exception = None
    /\ written = 2
    /\ Len(echoed) = 2
    /\ pipe = <<>>
    /\ childSignals = 0

----------------------------------------------------------------------------
(* The lines C16 counts, in its own words: a timestamped line with INFO
   CHUNK_DELETE; a timestamped line with INFO SNAPSHOT_DELETE and, later in the
   line, the word removed, that has no INFO CHUNK_DELETE *)
HasPair(line, first, second) ==
    \E k \in 1..(Len(line) - 1) : SubSeq(line, k, k + 1) = <<first, second>>

ChunkRemovalLine(line) ==
    /\ StartsWithTimestamp(line)
    /\ HasPair(line, "INFO", "CHUNK_DELETE")

SnapshotRemovalLine(line) ==
    /\ StartsWithTimestamp(line)
    /\ \E k \in 1..(Len(line) - 1) :
          /\ SubSeq(line, k, k + 1) = <<"INFO", "SNAPSHOT_DELETE">>
          /\ \E j \in (k + 2)..Len(line) : line[j] = "removed"
    /\ ~ HasPair(line, "INFO", "CHUNK_DELETE")

(* Every line read so far went through the whole loop body: no notification
   failure cut an iteration short *)
LinesClassified == exception = None

RemovalFrags(body) ==
    SelectSeq(body, LAMBDA f : f.tag \in {"chunks", "snapshots"})

(* C16: for the prune operation, chunks_removed is the number of timestamped
   lines matching INFO CHUNK_DELETE and snapshots_removed the number of
   timestamped lines matching INFO SNAPSHOT_DELETE ... removed and not INFO
   CHUNK_DELETE; the summary holds "; N chunk(s) removed" exactly when
   N = chunks_removed > 0 (and the like for snapshots); for any other operation
   both counters stay 0. *)
C16_RemovalCounts ==
    /\ LinesClassified =>
          /\ chunks_removed =
                (IF OPERATION = "prune"
                 THEN Len(SelectSeq(echoed, ChunkRemovalLine)) ELSE 0)
          /\ snapshots_removed =
                (IF OPERATION = "prune"
                 THEN Len(SelectSeq(echoed, SnapshotRemovalLine)) ELSE 0)
    /\ \A k \in SummaryAt :
          RemovalFrags(logs[k].body) =
              (IF chunks_removed > 0
               THEN <<Frag("chunks", <<>>, chunks_removed)>> ELSE <<>>)
              \o (IF snapshots_removed > 0
                  THEN <<Frag("snapshots", <<>>, snapshots_removed)>> ELSE <<>>)

C16_Witness ==
    /\ OPERATION = "prune"
    /\ SummaryAt # {}
    /\ chunks_removed = 1
    /\ snapshots_removed = 0
    /\ \E k \in 1..Len(echoed) : HasPair(echoed[k], "INFO", "SNAPSHOT_DELETE")

----------------------------------------------------------------------------
(* The allow-list of INFO keywords, as C17 and the table of the spec give it *)
AllowList ==
    {"BACKUP_END", "BACKUP_STATS", "SNAPSHOT_COPY", "SNAPSHOT_NONE", "SNAPSHOT_CHECK",
     "RESTORE_END", "RESTORE_STATS"}

(* The two suppressions: a SNAPSHOT_CHECK line saying that all chunks
   referenced by the snapshot exist; a SNAPSHOT_COPY line that mentions neither
   the chunks to copy nor the count of newly copied chunks *)
Suppressed(keyword, payload) ==
    \/ /\ keyword = "SNAPSHOT_CHECK"
       /\ \E k \in 1..Len(payload) : payload[k] = "All chunks referenced by snapshot"
    \/ /\ keyword = "SNAPSHOT_COPY"
       /\ \A k \in 1..Len(payload) :
              payload[k] \notin {"Chunks to copy:", "Copied 3 new chunks"}

(* The stat fragment a line contributes according to C17: none, or its payload *)
Contribution(line) ==
    IF /\ StartsWithTimestamp(line)
       /\ InfoAt(line) # {}
       /\ InfoKeyword(line) \in AllowList
       /\ ~ Suppressed(InfoKeyword(line), InfoPayload(line))
    THEN <<Frag("stat", InfoPayload(line), 0)>>
    ELSE <<>>

RECURSIVE Contributions(_)
Contributions(lines) ==
    IF lines = <<>> THEN <<>>
    ELSE Contribution(Head(lines)) \o Contributions(Tail(lines))

(* C17: a timestamped INFO line contributes a stat fragment if and only if its
   keyword is in the allow-list and the line is not suppressed (SNAPSHOT_CHECK
   saying all chunks referenced by the snapshot exist records nothing,
   SNAPSHOT_COPY records only a payload about the chunks to copy or the count
   of newly copied chunks); the recorded fragments keep the arrival order. *)
C17_StatFragments ==
    /\ LinesClassified => SelectSeq(stats, IsStat) = Contributions(echoed)
    /\ \A k \in SummaryAt : SelectSeq(logs[k].body, IsStat) = Contributions(echoed)

C17_Witness ==
    /\ Len(echoed) = 2
    /\ LinesClassified
    /\ Len(SelectSeq(stats, IsStat)) = 1
    /\ \A k \in 1..2 :
          /\ StartsWithTimestamp(echoed[k])
          /\ InfoAt(echoed[k]) # {}
          /\ InfoKeyword(echoed[k]) = "SNAPSHOT_COPY"

----------------------------------------------------------------------------
(* The summary call that returned successfully, with the severity and the
   message that were passed to it *)
SummaryReturned(sev, message) ==
    \E k \in SummaryAt : logs[k].ok /\ logs[k].sev = sev /\ logs[k].body = message

(* C18: the health-check ping is issued at most once per run, only when a URL
   is configured, only after the child has exited and the summary call has
   returned successfully; its URL suffix is the severity and its body the
   message that were passed to the sink for the summary. *)
C18_PingOnceAfterSummary ==
    [][ /\ Len(pings') <= 1
        /\ pings' # pings =>
              /\ healthchecks # None
              /\ child = "reaped" /\ childCode # NoNumber
              /\ Len(pings') = Len(pings) + 1
              /\ LET p == pings'[Len(pings')]
                 IN  /\ p.url = healthchecks
                     /\ SummaryReturned(p.suffix, p.data) ]_vars

C18_Witness ==
    /\ Len(pings) = 1
    /\ pings[1].suffix = 2
    /\ pings[1].url = URL
    /\ childCode = 100
    /\ errors = 0 /\ warnings = 0

----------------------------------------------------------------------------
WrapperTerminated == pc = "done"

ChildSpawned == child # "none"

(* C19: once a child has been spawned, the wrapper never terminates while the
   child is still running: on every path (normal end, a verbose-mode
   notification failing during the read loop) the wrapper exits only after the
   child has exited and its exit code has been read.  Read for the runs that no
   signal reaches. *)
C19_ExitsOnlyAfterChild ==
    WrapperTerminated /\ ChildSpawned /\ nsignals = 0 =>
        child = "reaped" /\ childCode # NoNumber

----------------------------------------------------------------------------
ChildCollected == child = "reaped"

(* C20: the signal handler sends a signal only to a live child: once the exit
   status of the child has been collected, a SIGINT or SIGTERM that the wrapper
   receives is not sent to the recorded process identifier and raises no
   failure in the main flow. *)
C20_NoSignalAfterCollection ==
    [][ SignalArrives /\ ChildCollected =>
            /\ straySignals' = straySignals
            /\ exception' = exception
            /\ pc' = pc ]_vars

====
